---- MODULE Spec2Model ----
(***************************************************************************)
(* A model of the EV charging station finder: the App view state machine   *)
(* (App.tsx), the map view (MapView.tsx, in its two versions) and the      *)
(* station detail view (StationDetails.tsx, in its two versions).          *)
(*                                                                         *)
(* Text is a sequence of one-character strings.  A JavaScript number is an *)
(* integer count of 1/10000 units, so 25.7617 is 257617 and 90 is 900000;  *)
(* NaN is a value of its own.  A JavaScript value is a record              *)
(* [kind, n, s, a]: kind names how the value was built, n is the payload   *)
(* of a number, s the text of a string, a the elements of an array.        *)
(***************************************************************************)
EXTENDS Integers, Sequences, FiniteSets

VARIABLES
    build,            \* which version of MapView / StationDetails is bundled
    stations,         \* the stations prop handed to MapView
    currentView,      \* App: useState<View>('map')
    selectedStation,  \* App: useState<ChargingStation | null>(null)
    isCharging,       \* App: useState(false)
    userLocation,     \* MapView: useState(null)
    searchQuery,      \* MapView: useState('')
    mapCenter,        \* MapView: useState([25.78, -80.1918])
    geo,              \* state of the getCurrentPosition request of the mounted MapView
    opened,           \* URLs handed to window.open, oldest first
    capture,          \* the capture loop of the code scanner: running or stopped
    decoded,          \* payloads the scanner has emitted that onScan has yet to handle
    probeIn,          \* argument of the pure function under examination
    probeOut,         \* its results so far
    probePc           \* how far the examination has got

vars == <<build, stations, currentView, selectedStation, isCharging,
          userLocation, searchQuery, mapCenter, geo, opened, capture, decoded,
          probeIn, probeOut, probePc>>

appVars == <<build, stations, currentView, selectedStation, isCharging,
             userLocation, searchQuery, mapCenter, geo, opened, capture, decoded>>

probeVars == <<probeIn, probeOut, probePc>>

(***************************************************************************)
(* Bounds of the model.                                                    *)
(***************************************************************************)
MaxLen == 3          \* longest text drawn over Alphabet
MaxStations == 2     \* longest stations list
MaxOpened == 1       \* window.open calls followed
MaxDecoded == 1      \* emitted payloads waiting for onScan

Null == [kind |-> "null", n |-> 0, s |-> <<>>, a |-> <<>>]
Undefined == [kind |-> "undefined", n |-> 0, s |-> <<>>, a |-> <<>>]
NaN == [kind |-> "nan", n |-> 0, s |-> <<>>, a |-> <<>>]
Obj == [kind |-> "object", n |-> 0, s |-> <<>>, a |-> <<>>]
Str(chars) == [kind |-> "string", n |-> 0, s |-> chars, a |-> <<>>]
Num(k) == [kind |-> "number", n |-> k, s |-> <<>>, a |-> <<>>]
Arr(elems) == [kind |-> "array", n |-> 0, s |-> <<>>, a |-> elems]

\* d degrees (or units) and f ten-thousandths, as a number payload
Fix(d, f) == d * 10000 + f

TypeOf(v) ==
    CASE v.kind = "string" -> "string"
      [] v.kind \in {"number", "nan"} -> "number"
      [] v.kind = "undefined" -> "undefined"
      [] OTHER -> "object"

IsArray(v) == v.kind = "array"

IsNaN(v) == v.kind # "number"

(***************************************************************************)
(* Number to text and back.                                                *)
(***************************************************************************)
DigitChars == <<"0", "1", "2", "3", "4", "5", "6", "7", "8", "9">>

DigitSet == {DigitChars[i] : i \in 1..10}

DigitOf(c) == (CHOOSE i \in 1..10 : DigitChars[i] = c) - 1

RECURSIVE Digits(_)
Digits(k) == IF k < 10 THEN <<DigitChars[k + 1]>>
             ELSE Digits(k \div 10) \o <<DigitChars[(k % 10) + 1]>>

RECURSIVE StripZeros(_)
StripZeros(ds) == IF Len(ds) > 0 /\ ds[Len(ds)] = "0"
                  THEN StripZeros(SubSeq(ds, 1, Len(ds) - 1))
                  ELSE ds

Abs(k) == IF k < 0 THEN -k ELSE k

NumText(k) ==
    LET m == Abs(k)
        f == m % 10000
        frac == <<DigitChars[(f \div 1000) + 1], DigitChars[((f \div 100) % 10) + 1],
                  DigitChars[((f \div 10) % 10) + 1], DigitChars[(f % 10) + 1]>>
    IN (IF k < 0 THEN <<"-">> ELSE <<>>)
       \o Digits(m \div 10000)
       \o (IF f = 0 THEN <<>> ELSE <<".">> \o StripZeros(frac))

RECURSIVE Join(_)
Join(texts) == IF Len(texts) = 0 THEN <<>>
               ELSE IF Len(texts) = 1 THEN texts[1]
               ELSE texts[1] \o <<",">> \o Join(Tail(texts))

\* String(v)
RECURSIVE StringOf(_)
StringOf(v) ==
    CASE v.kind = "string" -> v.s
      [] v.kind = "number" -> NumText(v.n)
      [] v.kind = "nan" -> <<"N", "a", "N">>
      [] v.kind = "undefined" -> <<"u", "n", "d", "e", "f", "i", "n", "e", "d">>
      [] v.kind = "null" -> <<"n", "u", "l", "l">>
      [] v.kind = "array" -> Join([i \in 1..Len(v.a) |-> StringOf(v.a[i])])
      [] OTHER -> <<"[object Object]">>

RECURSIVE TakeDigits(_)
TakeDigits(t) == IF Len(t) > 0 /\ t[1] \in DigitSet
                 THEN <<t[1]>> \o TakeDigits(Tail(t))
                 ELSE <<>>

RECURSIVE DigitsVal(_)
DigitsVal(ds) == IF Len(ds) = 0 THEN 0
                 ELSE DigitsVal(SubSeq(ds, 1, Len(ds) - 1)) * 10 + DigitOf(ds[Len(ds)])

FracVal(ds) ==
    LET d(i) == IF i <= Len(ds) THEN DigitOf(ds[i]) ELSE 0
    IN d(1) * 1000 + d(2) * 100 + d(3) * 10 + d(4)

\* parseFloat(text): the longest numeric prefix [+-]digits[.digits], else NaN
ParseFloat(t) ==
    LET signed == Len(t) > 0 /\ t[1] \in {"-", "+"}
        body == IF signed THEN Tail(t) ELSE t
        ip == TakeDigits(body)
        rest == SubSeq(body, Len(ip) + 1, Len(body))
        fp == IF Len(rest) > 0 /\ rest[1] = "." THEN TakeDigits(Tail(rest)) ELSE <<>>
        mag == DigitsVal(ip) * 10000 + FracVal(fp)
    IN IF Len(ip) = 0 /\ Len(fp) = 0 THEN NaN
       ELSE Num(IF signed /\ t[1] = "-" THEN -mag ELSE mag)

(***************************************************************************)
(* The text sanitizer: String(text), div.textContent = str, div.innerHTML. *)
(* The serialisation of a text node rewrites &, <, > and the no-break      *)
(* space, and nothing else.                                                *)
(***************************************************************************)
Nbsp == "nbsp"   \* the one character U+00A0

EscapeCharNoGt(c) ==
    CASE c = "&" -> <<"&", "a", "m", "p", ";">>
      [] c = "<" -> <<"&", "l", "t", ";">>
      [] c = Nbsp -> <<"&", "n", "b", "s", "p", ";">>
      [] OTHER -> <<c>>

EscapeCharWithQuotes(c) ==
    CASE c = "&" -> <<"&", "a", "m", "p", ";">>
      [] c = "<" -> <<"&", "l", "t", ";">>
      [] c = ">" -> <<"&", "g", "t", ";">>
      [] c = "\"" -> <<"&", "q", "u", "o", "t", ";">>
      [] c = "'" -> <<"&", "#", "3", "9", ";">>
      [] c = Nbsp -> <<"&", "n", "b", "s", "p", ";">>
      [] OTHER -> <<c>>

EscapeCharNoAmp(c) ==
    CASE c = "<" -> <<"&", "l", "t", ";">>
      [] c = ">" -> <<"&", "g", "t", ";">>
      [] c = Nbsp -> <<"&", "n", "b", "s", "p", ";">>
      [] OTHER -> <<c>>

EscapeChar(c) ==
    CASE c = "&" -> <<"&", "a", "m", "p", ";">>
      [] c = "<" -> <<"&", "l", "t", ";">>
      [] c = ">" -> <<"&", "g", "t", ";">>
      [] c = Nbsp -> <<"&", "n", "b", "s", "p", ";">>
      [] OTHER -> <<c>>

RECURSIVE InnerHTML(_)
InnerHTML(t) == IF Len(t) = 0 THEN <<>> ELSE EscapeChar(t[1]) \o InnerHTML(Tail(t))

sanitizeText(text) == InnerHTML(StringOf(text))

(***************************************************************************)
(* What an element shows when markup is assigned to it with                *)
(* dangerouslySetInnerHTML: character references are decoded, with or      *)
(* without their semicolon; a '<' followed by a letter opens a tag.        *)
(***************************************************************************)
EntityNames == << <<"a", "m", "p">>, <<"l", "t">>, <<"g", "t">>,
                  <<"q", "u", "o", "t">>, <<"n", "b", "s", "p">> >>

EntityChars == <<"&", "<", ">", "\"", Nbsp>>

StartsWith(t, p) == Len(t) >= Len(p) /\ SubSeq(t, 1, Len(p)) = p

RECURSIVE DecodeEntities(_)
DecodeEntities(t) ==
    IF Len(t) = 0 THEN <<>>
    ELSE IF t[1] = "&" /\ \E i \in 1..Len(EntityNames) : StartsWith(Tail(t), EntityNames[i])
    THEN LET i == CHOOSE j \in 1..Len(EntityNames) : StartsWith(Tail(t), EntityNames[j])
             after == SubSeq(t, Len(EntityNames[i]) + 2, Len(t))
             rest == IF Len(after) > 0 /\ after[1] = ";" THEN Tail(after) ELSE after
         IN <<EntityChars[i]>> \o DecodeEntities(rest)
    ELSE IF StartsWith(t, <<"&", "#", "3", "9", ";">>)
    THEN <<"'">> \o DecodeEntities(SubSeq(t, 6, Len(t)))
    ELSE <<t[1]>> \o DecodeEntities(Tail(t))

Letters == {"a", "b", "c", "d", "e", "f", "g", "h", "i", "j", "k", "l", "m",
            "n", "o", "p", "q", "r", "s", "t", "u", "v", "w", "x", "y", "z",
            "A", "B", "C", "D", "E", "F", "G", "H", "I", "J", "K", "L", "M",
            "N", "O", "P", "Q", "R", "S", "T", "U", "V", "W", "X", "Y", "Z"}

\* the markup opens an element: '<' then a letter, '/' or '!'
OpensTag(html) ==
    \E i \in 1..(Len(html) - 1) : html[i] = "<" /\ html[i + 1] \in Letters \cup {"/", "!"}

HasAngle(t) == \E i \in 1..Len(t) : t[i] \in {"<", ">"}

(***************************************************************************)
(* The station record validator.                                           *)
(***************************************************************************)
AVAILABLE == <<"a", "v", "a", "i", "l", "a", "b", "l", "e">>
BUSY == <<"b", "u", "s", "y">>
OFFLINE == <<"o", "f", "f", "l", "i", "n", "e">>

ValidStatuses == <<AVAILABLE, BUSY, OFFLINE>>

\* list.includes(v) for a list of strings
Includes(list, v) == v.kind = "string" /\ \E i \in 1..Len(list) : list[i] = v.s

validateStationNoArrayCheck(station) ==
    /\ TypeOf(station.id) = "string"
    /\ TypeOf(station.name) = "string"
    /\ TypeOf(station.address) = "string"
    /\ TypeOf(station.lat) = "number"
    /\ TypeOf(station.lng) = "number"
    /\ TypeOf(station.available) = "number"
    /\ TypeOf(station.total) = "number"
    /\ TypeOf(station.cost) = "number"
    /\ Includes(ValidStatuses, station.status)

validateStation(station) ==
    /\ TypeOf(station.id) = "string"
    /\ TypeOf(station.name) = "string"
    /\ TypeOf(station.address) = "string"
    /\ TypeOf(station.lat) = "number"
    /\ TypeOf(station.lng) = "number"
    /\ TypeOf(station.available) = "number"
    /\ TypeOf(station.total) = "number"
    /\ TypeOf(station.cost) = "number"
    /\ IsArray(station.amenities)
    /\ Includes(ValidStatuses, station.status)

(***************************************************************************)
(* The App state right after launch, with no stations: the state the       *)
(* application part keeps while a pure function is examined.               *)
(***************************************************************************)
DefaultCenter == <<Num(Fix(25, 7800)), Num(-Fix(80, 1918))>>

AppIdle ==
    /\ build = "hardened"
    /\ stations = <<>>
    /\ currentView = "map"
    /\ selectedStation = Null
    /\ isCharging = FALSE
    /\ userLocation = Null
    /\ searchQuery = <<>>
    /\ mapCenter = DefaultCenter
    /\ geo = "pending"
    /\ opened = <<>>
    /\ capture = "stopped"
    /\ decoded = <<>>

(***************************************************************************)
(* Examination of sanitizeText: one call, then a second call on the        *)
(* result of the first.                                                    *)
(***************************************************************************)
Alphabet == {"<", ">", "&", "\"", "'", "a"}

Texts(n) == UNION {[1..k -> Alphabet] : k \in 0..n}

ImgPayload == <<"<", "i", "m", "g", " ", "s", "r", "c", "=", "x", " ", "o", "n",
                "e", "r", "r", "o", "r", "=", "a", "l", "e", "r", "t", "(", "1",
                ")", ">">>

ImgEscaped == <<"&", "l", "t", ";", "i", "m", "g", " ", "s", "r", "c", "=", "x",
                " ", "o", "n", "e", "r", "r", "o", "r", "=", "a", "l", "e", "r",
                "t", "(", "1", ")", "&", "g", "t", ";">>

SanitizeInputs ==
    {Str(t) : t \in Texts(MaxLen)}
    \cup {Str(ImgPayload), Str(<<"&", "l", "t", ";">>), Str(<<"a", Nbsp, "<">>)}
    \cup {Num(Fix(3, 0)), Num(-Fix(80, 1918)), Num(Fix(0, 3500)), NaN}

InitSanitize ==
    /\ AppIdle
    /\ probeIn \in SanitizeInputs
    /\ probeOut = <<>>
    /\ probePc = "start"

SanitizeOnce ==
    /\ probePc = "start"
    /\ probeOut' = <<sanitizeText(probeIn)>>
    /\ probePc' = "once"
    /\ UNCHANGED <<probeIn, appVars>>

SanitizeTwice ==
    /\ probePc = "once"
    /\ probeOut' = Append(probeOut, sanitizeText(Str(probeOut[1])))
    /\ probePc' = "twice"
    /\ UNCHANGED <<probeIn, appVars>>

NextSanitize == SanitizeOnce \/ SanitizeTwice

SpecSanitize == InitSanitize /\ [][NextSanitize]_vars

(***************************************************************************)
(* Examination of validateStation over records whose fields are drawn      *)
(* from every kind of value a decoded feed can hold.  A missing field      *)
(* reads as undefined.                                                     *)
(***************************************************************************)
SomeText == <<"P", "l", "a", "z", "a">>

RawRecords ==
    [id : {Str(<<"1">>), Num(Fix(1, 0))},
     name : {Str(SomeText), Str(ImgPayload), Undefined},
     address : {Str(SomeText), Null},
     lat : {Num(Fix(25, 7617)), Num(Fix(999, 0)), NaN, Str(<<"2", "5">>)},
     lng : {Num(-Fix(80, 1918)), Undefined},
     available : {Num(Fix(3, 0)), Str(<<"3">>)},
     total : {Num(Fix(4, 0)), Null},
     cost : {Num(Fix(0, 3500)), Str(<<"0">>)},
     amenities : {Arr(<<>>), Arr(<<Str(<<"W", "i", "F", "i">>)>>),
                  Arr(<<Str(<<"a">>), Num(Fix(7, 0))>>),
                  Str(<<"W", "i", "F", "i">>), Obj, Undefined},
     status : {Str(AVAILABLE), Str(BUSY), Str(OFFLINE),
               Str(<<"u", "n", "k", "n", "o", "w", "n">>), Num(Fix(1, 0)), Undefined}]

InitValidate ==
    /\ AppIdle
    /\ probeIn \in RawRecords
    /\ probeOut = <<>>
    /\ probePc = "start"

ValidateRecord ==
    /\ probePc = "start"
    /\ probeOut' = <<validateStation(probeIn)>>
    /\ probePc' = "validated"
    /\ UNCHANGED <<probeIn, appVars>>

NextValidate == ValidateRecord

SpecValidate == InitValidate /\ [][NextValidate]_vars

(***************************************************************************)
(* createStationIcon, in its two versions: the background colour of the    *)
(* marker, the one part of the icon that depends on the argument.          *)
(***************************************************************************)
\* a status outside the list styled like the grey default of getStatusColor
createStationIconNoDefault(status) ==
    IF ~Includes(ValidStatuses, status) THEN "#6B7280"
    ELSE IF status = Str(AVAILABLE) THEN "#10B981"
    ELSE IF status = Str(BUSY) THEN "#F59E0B" ELSE "#EF4444"

createStationIconHardened(status) ==
    LET safeStatus == IF Includes(ValidStatuses, status) THEN status ELSE Str(OFFLINE)
    IN IF safeStatus = Str(AVAILABLE) THEN "#10B981"
       ELSE IF safeStatus = Str(BUSY) THEN "#F59E0B" ELSE "#EF4444"

createStationIconOriginal(status) ==
    IF status = Str(AVAILABLE) THEN "#10B981"
    ELSE IF status = Str(BUSY) THEN "#F59E0B" ELSE "#EF4444"

\* icon={createStationIcon(station.status)}, for any record
StyleMarker ==
    /\ probePc = "start"
    /\ probeOut' = <<createStationIconHardened(probeIn.status),
                     createStationIconOriginal(probeIn.status)>>
    /\ probePc' = "styled"
    /\ UNCHANGED <<probeIn, appVars>>

NextMarker == StyleMarker

SpecMarker == InitValidate /\ [][NextMarker]_vars

(***************************************************************************)
(* The application.  Station records of the feed.                          *)
(***************************************************************************)
Station(id, name, address, lat, lng, available, total, cost, amenities, status) ==
    [id |-> id, name |-> name, address |-> address, lat |-> lat, lng |-> lng,
     available |-> available, total |-> total, cost |-> cost,
     amenities |-> amenities, status |-> status]

WiFi == Str(<<"W", "i", "F", "i">>)

MainSt == Str(<<"1", "2", "3", " ", "M", "a", "i", "n", " ", "S", "t">>)

\* the first mock station of App.tsx
Downtown ==
    Station(Str(<<"1">>),
            Str(<<"D", "o", "w", "n", "t", "o", "w", "n", " ", "P", "l", "a", "z", "a">>),
            MainSt, Num(Fix(25, 7617)), Num(-Fix(80, 1918)),
            Num(Fix(3, 0)), Num(Fix(4, 0)), Num(Fix(0, 3500)), Arr(<<WiFi>>), Str(AVAILABLE))

\* the second mock station of App.tsx
Airport ==
    Station(Str(<<"2">>),
            Str(<<"A", "i", "r", "p", "o", "r", "t">>),
            Str(<<"2", "1", "0", "0", " ", "N", "W">>), Num(Fix(25, 7959)), Num(-Fix(80, 2870)),
            Num(Fix(0, 0)), Num(Fix(6, 0)), Num(Fix(0, 4200)),
            Arr(<<Str(<<"F", "o", "o", "d">>)>>), Str(BUSY))

\* well typed, with markup in its text fields
XssStation ==
    Station(Str(<<"3">>), Str(ImgPayload), Str(<<"A", "&", "B", " ", "\"", "x", "\"">>),
            Num(Fix(90, 0)), Num(-Fix(180, 0)),
            Num(Fix(2, 0)), Num(Fix(3, 0)), Num(Fix(0, 3800)),
            Arr(<<Str(<<"<", "b", ">">>)>>), Str(OFFLINE))

\* well typed, with a latitude no place has
FarStation ==
    Station(Str(<<"4">>), Str(<<"F", "a", "r">>), MainSt,
            Num(Fix(999, 0)), Num(-Fix(80, 1900)),
            Num(Fix(1, 0)), Num(Fix(2, 0)), Num(Fix(0, 3500)), Arr(<<>>), Str(AVAILABLE))

\* well typed, with NaN and negative numbers
NanStation ==
    Station(Str(<<"5">>), Str(<<"N", "a", "n">>), MainSt,
            NaN, Num(-Fix(80, 1900)),
            Num(-Fix(1, 0)), Num(Fix(2, 0)), NaN, Arr(<<WiFi>>), Str(BUSY))

\* a status outside the enumeration
BadStatus ==
    Station(Str(<<"6">>), Str(<<"O", "d", "d">>), MainSt,
            Num(Fix(25, 7900)), Num(-Fix(80, 1300)),
            Num(Fix(1, 0)), Num(Fix(2, 0)), Num(Fix(0, 3500)), Arr(<<WiFi>>),
            Str(<<"u", "n", "k", "n", "o", "w", "n">>))

\* no name, amenities that are not a list, a text latitude
Malformed ==
    Station(Str(<<"7">>), Undefined, MainSt,
            Str(<<"2", "5", "a">>), Num(-Fix(80, 1300)),
            Num(Fix(1, 0)), Num(Fix(2, 0)), Num(Fix(0, 3500)), WiFi, Str(AVAILABLE))

Catalogue == <<Downtown, Airport, XssStation, FarStation, NanStation, BadStatus, Malformed>>

\* the lists of at most n records of the catalogue, in catalogue order
StationLists(n) ==
    LET picks == {p \in SUBSET (1..Len(Catalogue)) : Cardinality(p) \in 1..n}
        RECURSIVE Ordered(_, _)
        Ordered(p, i) == IF i > Len(Catalogue) THEN <<>>
                         ELSE (IF i \in p THEN <<Catalogue[i]>> ELSE <<>>) \o Ordered(p, i + 1)
    IN {Ordered(p, 1) : p \in picks}

Builds == {"hardened", "original"}

Views == {"map", "details", "scanner", "profile"}

Queries == {<<>>, <<"P", "L">>, <<"&">>}

Loc(lat, lng) == [kind |-> "location", n |-> 0, s |-> <<>>, a |-> <<lat, lng>>]

FallbackLocation == Loc(Num(Fix(25, 7617)), Num(-Fix(80, 1918)))

GeoPositions == {<<Num(Fix(40, 7128)), Num(-Fix(74, 60))>>}

Payloads == {"SESSION-OK", ""}

(***************************************************************************)
(* Text helpers of the search filter.                                      *)
(***************************************************************************)
Uppers == <<"A", "B", "C", "D", "E", "F", "G", "H", "I", "J", "K", "L", "M",
            "N", "O", "P", "Q", "R", "S", "T", "U", "V", "W", "X", "Y", "Z">>

Lowers == <<"a", "b", "c", "d", "e", "f", "g", "h", "i", "j", "k", "l", "m",
            "n", "o", "p", "q", "r", "s", "t", "u", "v", "w", "x", "y", "z">>

UpperSet == {Uppers[i] : i \in 1..26}

LowerSet == {Lowers[i] : i \in 1..26}

LowerOfUpper == [c \in UpperSet |-> Lowers[CHOOSE i \in 1..26 : Uppers[i] = c]]

UpperOfLower == [c \in LowerSet |-> Uppers[CHOOSE i \in 1..26 : Lowers[i] = c]]

LowerChar(c) == IF c \in UpperSet THEN LowerOfUpper[c] ELSE c

UpperChar(c) == IF c \in LowerSet THEN UpperOfLower[c] ELSE c

toLowerCase(t) == [i \in 1..Len(t) |-> LowerChar(t[i])]

\* t.includes(q)
includes(t, q) == \E i \in 0..(Len(t) - Len(q)) : SubSeq(t, i + 1, i + Len(q)) = q

(***************************************************************************)
(* MapView: the derived lists, in the version that validates and           *)
(* sanitizes and in the version that does neither.                         *)
(***************************************************************************)
sanitizedSearchQuery == toLowerCase(sanitizeText(Str(searchQuery)))

MatchesQuery(station, q) ==
    \/ includes(toLowerCase(station.name.s), q)
    \/ includes(toLowerCase(station.address.s), q)

filteredStationsHardened ==
    LET Hit(station) == MatchesQuery(station, sanitizedSearchQuery)
    IN SelectSeq(SelectSeq(stations, validateStation), Hit)

filteredStationsOriginal ==
    LET Hit(station) == MatchesQuery(station, toLowerCase(searchQuery))
    IN SelectSeq(stations, Hit)

filteredStations ==
    IF build = "hardened" THEN filteredStationsHardened ELSE filteredStationsOriginal

markerStationsHardened == SelectSeq(stations, validateStation)

markerStationsOriginal == stations

markerStations ==
    IF build = "hardened" THEN markerStationsHardened ELSE markerStationsOriginal

(***************************************************************************)
(* A render that throws a TypeError takes the whole application down:      *)
(* nothing is shown and no handler can run any more.                       *)
(***************************************************************************)
\* MapView.tsx: name.toLowerCase(), address.toLowerCase(), amenities.slice(0, 3).map
MapViewThrowsOriginal ==
    \E i \in 1..Len(stations) :
        LET station == stations[i]
            q == toLowerCase(searchQuery)
            nameHit == includes(toLowerCase(station.name.s), q)
        IN \/ station.name.kind # "string"
           \/ ~nameHit /\ station.address.kind # "string"
           \/ MatchesQuery(station, q) /\ ~IsArray(station.amenities)

\* StationDetails.tsx: status.charAt(0), amenities.map, and amenity.toLowerCase()
\* in the version that does not sanitize the amenity first
StationDetailsThrows(station) ==
    \/ station.status.kind # "string"
    \/ ~IsArray(station.amenities)
    \/ /\ build = "original"
       /\ \E i \in 1..Len(station.amenities.a) : station.amenities.a[i].kind # "string"

\* the detail view rendered without the test of selectedStation
RenderThrowsUnguarded ==
    CASE currentView = "map" -> build = "original" /\ MapViewThrowsOriginal
      [] currentView = "details" ->
            IF selectedStation = Null THEN TRUE
            ELSE StationDetailsThrows(selectedStation)
      [] OTHER -> FALSE

RenderThrows ==
    CASE currentView = "map" -> build = "original" /\ MapViewThrowsOriginal
      [] currentView = "details" /\ selectedStation # Null ->
            StationDetailsThrows(selectedStation)
      [] OTHER -> FALSE

\* the stations shown as markers and as cards
Markers == IF currentView = "map" /\ ~RenderThrows THEN markerStations ELSE <<>>

Cards == IF currentView = "map" /\ ~RenderThrows THEN filteredStations ELSE <<>>

\* StationDetails is on screen
DetailsShown == currentView = "details" /\ selectedStation # Null /\ ~RenderThrows

Range(seq) == {seq[i] : i \in 1..Len(seq)}

(***************************************************************************)
(* App: the view state machine.  MapView is mounted while the view is map; *)
(* its state starts afresh on every mount, and mounting issues the         *)
(* geolocation request.                                                    *)
(***************************************************************************)
MountMapView ==
    /\ userLocation' = Null
    /\ searchQuery' = <<>>
    /\ mapCenter' = DefaultCenter
    /\ geo' = "pending"

\* the effect has no cleanup: a request still pending when MapView is
\* unmounted stays with the geolocation service, its callbacks bound to the
\* unmounted instance
UnmountMapView ==
    /\ userLocation' = Null
    /\ searchQuery' = <<>>
    /\ mapCenter' = DefaultCenter
    /\ geo' = IF geo = "pending" THEN "stale" ELSE "idle"

\* QRScanner left mounted when the scanner is left for the detail view
setCurrentViewKeepsScanner(view) ==
    /\ currentView' = view
    /\ IF view = "map" /\ currentView # "map"
       THEN /\ userLocation' = Null
            /\ searchQuery' = <<>>
            /\ mapCenter' = DefaultCenter
            /\ geo' = "pending"
       ELSE IF view # "map" /\ currentView = "map"
       THEN /\ userLocation' = Null
            /\ searchQuery' = <<>>
            /\ mapCenter' = DefaultCenter
            /\ geo' = IF geo = "pending" THEN "stale" ELSE "idle"
       ELSE UNCHANGED <<userLocation, searchQuery, mapCenter, geo>>
    /\ IF view = "scanner" /\ currentView # "scanner" THEN capture' = "running"
       ELSE IF view \notin {"scanner", "details"} /\ currentView = "scanner"
       THEN capture' = "stopped"
       ELSE UNCHANGED capture

\* QRScanner is mounted while the view is scanner.  Mounting starts the
\* capture loop; unmounting is the stop call of the capture collaborator.
MountQRScanner == capture' = "running"

UnmountQRScanner == capture' = "stopped"

setCurrentView(view) ==
    /\ currentView' = view
    /\ IF view = "map" /\ currentView # "map" THEN MountMapView
       ELSE IF view # "map" /\ currentView = "map" THEN UnmountMapView
       ELSE UNCHANGED <<userLocation, searchQuery, mapCenter, geo>>
    /\ IF view = "scanner" /\ currentView # "scanner" THEN MountQRScanner
       ELSE IF view # "scanner" /\ currentView = "scanner" THEN UnmountQRScanner
       ELSE UNCHANGED capture

handleStationSelect(station) ==
    /\ selectedStation' = station
    /\ setCurrentView("details")
    /\ UNCHANGED <<build, stations, isCharging, opened, decoded, probeVars>>

\* starting a charge clears the session flag
handleStartChargingResets ==
    /\ isCharging' = FALSE
    /\ setCurrentView("scanner")
    /\ UNCHANGED <<build, stations, selectedStation, opened, decoded, probeVars>>

handleStartCharging ==
    /\ setCurrentView("scanner")
    /\ UNCHANGED <<build, stations, selectedStation, isCharging, opened, decoded, probeVars>>

\* only one payload format starts a session
handleQRScanChecked(result) ==
    /\ IF result = "SESSION-OK"
       THEN isCharging' = TRUE /\ setCurrentView("map")
       ELSE UNCHANGED <<isCharging, currentView, userLocation, searchQuery,
                        mapCenter, geo, capture>>
    /\ UNCHANGED <<build, stations, selectedStation, opened, probeVars>>

handleQRScan(result) ==
    /\ isCharging' = TRUE
    /\ setCurrentView("map")
    /\ UNCHANGED <<build, stations, selectedStation, opened, probeVars>>

\* a station card is clicked.  setMapCenter is called first, but the same
\* batch of updates unmounts MapView, so the new center is never rendered.
handleStationCardClick(station) == handleStationSelect(station)

StationCardClick ==
    /\ ~RenderThrows
    /\ \E i \in 1..Len(Cards) : handleStationCardClick(Cards[i])

PopupViewDetails ==
    /\ ~RenderThrows
    /\ \E i \in 1..Len(Markers) : handleStationSelect(Markers[i])

SearchInput ==
    /\ currentView = "map"
    /\ ~RenderThrows
    /\ \E q \in Queries : searchQuery' = q
    /\ UNCHANGED <<build, stations, currentView, selectedStation, isCharging,
                   userLocation, mapCenter, geo, opened, capture, decoded, probeVars>>

\* the charge button: disabled unless the station is available
ChargeButtonClick ==
    /\ DetailsShown
    /\ selectedStation.status = Str(AVAILABLE)
    /\ handleStartCharging

\* back from the detail view drops the selection
DetailsBackClearsSelection ==
    /\ DetailsShown
    /\ selectedStation' = Null
    /\ setCurrentView("map")
    /\ UNCHANGED <<build, stations, isCharging, opened, decoded, probeVars>>

DetailsBack ==
    /\ DetailsShown
    /\ setCurrentView("map")
    /\ UNCHANGED <<build, stations, selectedStation, isCharging, opened, decoded, probeVars>>

ScannerBack ==
    /\ currentView = "scanner"
    /\ setCurrentView("details")
    /\ UNCHANGED <<build, stations, selectedStation, isCharging, opened, decoded, probeVars>>

\* the capture loop decodes a code and emits its payload; onScan runs later,
\* on its own turn of the event loop
onDecode ==
    /\ capture = "running"
    /\ Len(decoded) < MaxDecoded
    /\ \E payload \in Payloads : decoded' = Append(decoded, payload)
    /\ UNCHANGED <<build, stations, currentView, selectedStation, isCharging,
                   userLocation, searchQuery, mapCenter, geo, opened, capture, probeVars>>

\* onScan={handleQRScan}: the oldest emitted payload is handled, whatever the
\* view has become in the meantime
ScannerScan ==
    /\ ~RenderThrows
    /\ decoded # <<>>
    /\ handleQRScan(Head(decoded))
    /\ decoded' = Tail(decoded)

\* onBack of the profile wired like onBack of the scanner
ProfileBackToDetails ==
    /\ currentView = "profile"
    /\ setCurrentView("details")
    /\ UNCHANGED <<build, stations, selectedStation, isCharging, opened, decoded, probeVars>>

ProfileBack ==
    /\ currentView = "profile"
    /\ setCurrentView("map")
    /\ UNCHANGED <<build, stations, selectedStation, isCharging, opened, decoded, probeVars>>

\* the Find button also ends the session
BottomNavEndsSession ==
    /\ ~RenderThrows
    /\ \E view \in {"map", "scanner", "profile"} :
          /\ setCurrentView(view)
          /\ isCharging' = IF view = "map" THEN FALSE ELSE isCharging
    /\ UNCHANGED <<build, stations, selectedStation, opened, decoded, probeVars>>

BottomNav ==
    /\ ~RenderThrows
    /\ \E view \in {"map", "scanner", "profile"} : setCurrentView(view)
    /\ UNCHANGED <<build, stations, selectedStation, isCharging, opened, decoded, probeVars>>

\* the success callback without setMapCenter
GeoSuccessLocationOnly ==
    /\ currentView = "map"
    /\ ~RenderThrows
    /\ geo = "pending"
    /\ \E position \in GeoPositions : userLocation' = Loc(position[1], position[2])
    /\ geo' = "resolved"
    /\ UNCHANGED <<build, stations, currentView, selectedStation, isCharging,
                   searchQuery, mapCenter, opened, capture, decoded, probeVars>>

GeoSuccess ==
    /\ currentView = "map"
    /\ ~RenderThrows
    /\ geo = "pending"
    /\ \E position \in GeoPositions :
          /\ userLocation' = Loc(position[1], position[2])
          /\ mapCenter' = <<position[1], position[2]>>
    /\ geo' = "resolved"
    /\ UNCHANGED <<build, stations, currentView, selectedStation, isCharging,
                   searchQuery, opened, capture, decoded, probeVars>>

\* the error callback that only logs
GeoFailureLeavesUnset ==
    /\ currentView = "map"
    /\ ~RenderThrows
    /\ geo = "pending"
    /\ geo' = "failed"
    /\ UNCHANGED <<build, stations, currentView, selectedStation, isCharging,
                   userLocation, searchQuery, mapCenter, opened, capture, decoded,
                   probeVars>>

\* the error callback that also moves the map to the fallback location
GeoFailureRecenters ==
    /\ currentView = "map"
    /\ ~RenderThrows
    /\ geo = "pending"
    /\ userLocation' = FallbackLocation
    /\ mapCenter' = FallbackLocation.a
    /\ geo' = "failed"
    /\ UNCHANGED <<build, stations, currentView, selectedStation, isCharging,
                   searchQuery, opened, capture, decoded, probeVars>>

GeoFailure ==
    /\ currentView = "map"
    /\ ~RenderThrows
    /\ geo = "pending"
    /\ userLocation' = FallbackLocation
    /\ geo' = "failed"
    /\ UNCHANGED <<build, stations, currentView, selectedStation, isCharging,
                   searchQuery, mapCenter, opened, capture, decoded, probeVars>>

\* the callback whose setters reach the next mounted MapView
GeoCallbackUnmountedApplies ==
    /\ geo = "stale"
    /\ geo' = "dropped"
    /\ userLocation' = FallbackLocation
    /\ UNCHANGED <<build, stations, currentView, selectedStation, isCharging,
                   searchQuery, mapCenter, opened, capture, decoded, probeVars>>

\* a callback of the request of an unmounted MapView, success or failure:
\* setUserLocation and setMapCenter of an unmounted component change nothing
GeoCallbackUnmounted ==
    /\ geo = "stale"
    /\ geo' = "dropped"
    /\ UNCHANGED <<build, stations, currentView, selectedStation, isCharging,
                   userLocation, searchQuery, mapCenter, opened, capture, decoded,
                   probeVars>>

(***************************************************************************)
(* The directions link.                                                    *)
(***************************************************************************)
UrlBase == "https://maps.google.com/?q="

Unreserved == Letters \cup DigitSet \cup {"-", "_", ".", "!", "~", "*", "'", "(", ")"}

\* the characters of the model that encodeURIComponent rewrites
PercentTable ==
    << <<" ", <<"%", "2", "0">> >>, <<"\"", <<"%", "2", "2">> >>,
       <<"#", <<"%", "2", "3">> >>, <<"%", <<"%", "2", "5">> >>,
       <<"&", <<"%", "2", "6">> >>, <<"+", <<"%", "2", "B">> >>,
       <<",", <<"%", "2", "C">> >>, <<"/", <<"%", "2", "F">> >>,
       <<";", <<"%", "3", "B">> >>, <<"<", <<"%", "3", "C">> >>,
       <<"=", <<"%", "3", "D">> >>, <<">", <<"%", "3", "E">> >>,
       <<"?", <<"%", "3", "F">> >>, <<Nbsp, <<"%", "C", "2", "%", "A", "0">> >> >>

\* escapes that only decoding meets
DecodeTable ==
    PercentTable \o << <<"-", <<"%", "2", "D">> >>, <<".", <<"%", "2", "E">> >> >>

EncodeChar(c) ==
    IF c \in Unreserved THEN <<c>>
    ELSE PercentTable[CHOOSE i \in 1..Len(PercentTable) : PercentTable[i][1] = c][2]

RECURSIVE EncodeText(_)
EncodeText(t) == IF Len(t) = 0 THEN <<>> ELSE EncodeChar(t[1]) \o EncodeText(Tail(t))

encodeURIComponent(v) == EncodeText(StringOf(v))

RECURSIVE decodeURIComponent(_)
decodeURIComponent(t) ==
    IF Len(t) = 0 THEN <<>>
    ELSE IF t[1] = "%" /\ \E i \in 1..Len(DecodeTable) : StartsWith(t, DecodeTable[i][2])
    THEN LET i == CHOOSE j \in 1..Len(DecodeTable) : StartsWith(t, DecodeTable[j][2])
         IN <<DecodeTable[i][1]>>
            \o decodeURIComponent(SubSeq(t, Len(DecodeTable[i][2]) + 1, Len(t)))
    ELSE <<t[1]>> \o decodeURIComponent(Tail(t))

\* the value of the q parameter of a directions URL, still encoded
RECURSIVE UpToDelimiter(_)
UpToDelimiter(t) == IF Len(t) = 0 \/ t[1] \in {"&", "#"} THEN <<>>
                    ELSE <<t[1]>> \o UpToDelimiter(Tail(t))

QueryParam(url) == UpToDelimiter(Tail(url))

\* StationDetails.tsx, first version: parse, check, encode, open
GuardRejects(lat, lng) ==
    \/ IsNaN(lat)
    \/ IsNaN(lng)
    \/ lat.n < -Fix(90, 0)
    \/ lat.n > Fix(90, 0)
    \/ lng.n < -Fix(180, 0)
    \/ lng.n > Fix(180, 0)

DirectionsUrl(lat, lng) ==
    <<UrlBase>> \o encodeURIComponent(lat) \o <<",">> \o encodeURIComponent(lng)

handleGetDirectionsSwapped(station) ==
    LET lat == ParseFloat(StringOf(station.lat))
        lng == ParseFloat(StringOf(station.lng))
    IN IF GuardRejects(lat, lng)
       THEN UNCHANGED opened
       ELSE opened' = Append(opened, DirectionsUrl(lng, lat))

handleGetDirectionsGuarded(station) ==
    LET lat == ParseFloat(StringOf(station.lat))
        lng == ParseFloat(StringOf(station.lng))
    IN IF GuardRejects(lat, lng)
       THEN UNCHANGED opened
       ELSE opened' = Append(opened, DirectionsUrl(lat, lng))

\* StationDetails.tsx, second version: interpolate and open
handleGetDirectionsUnguarded(station) ==
    LET url == <<UrlBase>> \o StringOf(station.lat) \o <<",">> \o StringOf(station.lng)
    IN opened' = Append(opened, url)

handleGetDirections(station) ==
    IF build = "hardened" THEN handleGetDirectionsGuarded(station)
    ELSE handleGetDirectionsUnguarded(station)

DirectionsButtonClick ==
    /\ DetailsShown
    /\ Len(opened) < MaxOpened
    /\ handleGetDirections(selectedStation)
    /\ UNCHANGED <<build, stations, currentView, selectedStation, isCharging,
                   userLocation, searchQuery, mapCenter, geo, capture, decoded, probeVars>>

(***************************************************************************)
(* The application from launch, for every bundled version and every        *)
(* stations list of the feed.                                              *)
(***************************************************************************)
ProbeIdle ==
    /\ probeIn = Null
    /\ probeOut = <<>>
    /\ probePc = "idle"

Init ==
    /\ build \in Builds
    /\ stations \in StationLists(MaxStations)
    /\ currentView = "map"
    /\ selectedStation = Null
    /\ isCharging = FALSE
    /\ userLocation = Null
    /\ searchQuery = <<>>
    /\ mapCenter = DefaultCenter
    /\ geo = "pending"
    /\ opened = <<>>
    /\ capture = "stopped"
    /\ decoded = <<>>
    /\ ProbeIdle

Next ==
    \/ StationCardClick
    \/ PopupViewDetails
    \/ SearchInput
    \/ ChargeButtonClick
    \/ DirectionsButtonClick
    \/ DetailsBack
    \/ ScannerBack
    \/ onDecode
    \/ ScannerScan
    \/ ProfileBack
    \/ BottomNav
    \/ GeoSuccess
    \/ GeoFailure
    \/ GeoCallbackUnmounted

Spec == Init /\ [][Next]_vars

(***************************************************************************)
(* The directions button on its own: the detail view of one station, for   *)
(* coordinates around every edge of the valid ranges.                      *)
(***************************************************************************)
LatSamples ==
    {Num(-Fix(90, 1)), Num(-Fix(90, 0)), Num(-Fix(45, 5000)), Num(Fix(0, 0)),
     Num(Fix(0, 1)), Num(Fix(25, 7617)), Num(Fix(90, 0)), Num(Fix(90, 1)),
     Num(Fix(999, 0)), NaN}

LngSamples ==
    {Num(-Fix(180, 1)), Num(-Fix(180, 0)), Num(-Fix(80, 1900)), Num(Fix(0, 0)),
     Num(Fix(179, 9999)), Num(Fix(180, 0)), Num(Fix(180, 1)), NaN}

InitDirections ==
    /\ build \in Builds
    /\ \E lat \in LatSamples, lng \in LngSamples :
          selectedStation = [Downtown EXCEPT !.lat = lat, !.lng = lng]
    /\ stations = <<selectedStation>>
    /\ currentView = "details"
    /\ isCharging = FALSE
    /\ userLocation = Null
    /\ searchQuery = <<>>
    /\ mapCenter = DefaultCenter
    /\ geo = "idle"
    /\ opened = <<>>
    /\ capture = "stopped"
    /\ decoded = <<>>
    /\ ProbeIdle

NextDirections == DirectionsButtonClick

SpecDirections == InitDirections /\ [][NextDirections]_vars

(***************************************************************************)
(* The view state machine over a few station lists: two sound records, a   *)
(* sound record with one the validator rejects, records with a markup name *)
(* and with a latitude out of range, and a record whose fields have the    *)
(* wrong types.                                                            *)
(***************************************************************************)
NavStationLists ==
    {<<Downtown, Airport>>, <<Airport, BadStatus>>,
     <<XssStation, FarStation>>, <<Downtown, Malformed>>}

InitNav ==
    /\ Init
    /\ stations \in NavStationLists

SpecNav == InitNav /\ [][Next]_vars

(***************************************************************************)
(* What is handed to the render sinks: for each surface and each text      *)
(* field of a station shown there, the value read from the record and the  *)
(* text given to the sink.  The status badge of a station card shows one   *)
(* of the fixed labels of getStatusText, not text of the record, and is    *)
(* not listed.                                                             *)
(***************************************************************************)
Write(surface, field, raw, text) ==
    [surface |-> surface, field |-> field, raw |-> raw, text |-> text]

\* status.charAt(0).toUpperCase() + status.slice(1)
Capitalize(t) == IF Len(t) = 0 THEN <<>> ELSE <<UpperChar(t[1])>> \o Tail(t)

FirstThree(seq) == SubSeq(seq, 1, IF Len(seq) < 3 THEN Len(seq) ELSE 3)

PopupWritesHardened(station) ==
    {Write("popup", "name", station.name, sanitizeText(station.name)),
     Write("popup", "address", station.address, sanitizeText(station.address)),
     Write("popup", "status", station.status, sanitizeText(station.status))}

PopupWritesOriginal(station) ==
    {Write("popup", "name", station.name, StringOf(station.name)),
     Write("popup", "address", station.address, StringOf(station.address)),
     Write("popup", "status", station.status, StringOf(station.status))}

CardWritesHardened(station) ==
    {Write("card", "name", station.name, sanitizeText(station.name)),
     Write("card", "address", station.address, sanitizeText(station.address))}
    \cup {Write("card", "amenity", amenity, sanitizeText(amenity)) :
            amenity \in Range(FirstThree(station.amenities.a))}

CardWritesOriginal(station) ==
    {Write("card", "name", station.name, StringOf(station.name)),
     Write("card", "address", station.address, StringOf(station.address))}
    \cup {Write("card", "amenity", amenity, StringOf(amenity)) :
            amenity \in Range(FirstThree(station.amenities.a))}

DetailsWritesHardened(station) ==
    LET label == Str(Capitalize(station.status.s))
    IN {Write("details", "name", station.name, sanitizeText(station.name)),
        Write("details", "status", label, sanitizeText(label)),
        Write("details", "address", station.address, sanitizeText(station.address))}
       \cup {Write("details", "amenity", amenity, sanitizeText(amenity)) :
               amenity \in Range(station.amenities.a)}

DetailsWritesOriginal(station) ==
    LET label == Str(Capitalize(station.status.s))
    IN {Write("details", "name", station.name, StringOf(station.name)),
        Write("details", "status", label, StringOf(label)),
        Write("details", "address", station.address, StringOf(station.address))}
       \cup {Write("details", "amenity", amenity, StringOf(amenity)) :
               amenity \in Range(station.amenities.a)}

SinkWrites ==
    (UNION {IF build = "hardened" THEN PopupWritesHardened(station)
            ELSE PopupWritesOriginal(station) : station \in Range(Markers)})
    \cup (UNION {IF build = "hardened" THEN CardWritesHardened(station)
                 ELSE CardWritesOriginal(station) : station \in Range(Cards)})
    \cup (IF ~DetailsShown THEN {}
          ELSE IF build = "hardened" THEN DetailsWritesHardened(selectedStation)
          ELSE DetailsWritesOriginal(selectedStation))

(***************************************************************************)
(* The numbers shown for a station: available, total and cost, on each     *)
(* surface, with the value read from the record and the text displayed.    *)
(***************************************************************************)
\* Number(text): exact for the empty text and for a decimal numeral in the
\* form String gives it; every other text is taken as not a number
TextToNumber(t) ==
    IF t = <<>> THEN Num(0)
    ELSE LET parsed == ParseFloat(t)
         IN IF parsed.kind = "number" /\ NumText(parsed.n) = t THEN parsed ELSE NaN

\* Number(v)
ToNumber(v) ==
    CASE v.kind = "number" -> v
      [] v.kind = "nan" -> NaN
      [] v.kind = "null" -> Num(0)
      [] v.kind = "undefined" -> NaN
      [] OTHER -> TextToNumber(StringOf(v))

\* Math.max(0, Number(v) || 0)
SafeNumber(v) ==
    LET number == ToNumber(v)
    IN IF number.kind = "nan" \/ number.n <= 0 THEN Num(0) ELSE number

\* v.toFixed(2) for a number that is not negative; a number halfway between
\* two hundredths is rounded up
toFixed2(v) ==
    LET hundredths == (v.n + 50) \div 100
    IN Digits(hundredths \div 100)
       \o <<".", DigitChars[((hundredths \div 10) % 10) + 1],
                 DigitChars[(hundredths % 10) + 1]>>

\* {value} as a child of an element: null and undefined show nothing
JsxText(v) == IF v.kind \in {"null", "undefined"} THEN <<>> ELSE StringOf(v)

\* safeAvailable, safeTotal and safeCost of the popup and of the card
NumberWritesClamped(surface, station) ==
    {Write(surface, "available", station.available,
           StringOf(SafeNumber(station.available))),
     Write(surface, "total", station.total, StringOf(SafeNumber(station.total))),
     Write(surface, "cost", station.cost, toFixed2(SafeNumber(station.cost)))}

\* {station.available}/{station.total} and ${station.cost}
NumberWritesRaw(surface, station) ==
    {Write(surface, "available", station.available, JsxText(station.available)),
     Write(surface, "total", station.total, JsxText(station.total)),
     Write(surface, "cost", station.cost, JsxText(station.cost))}

NumberWrites ==
    (UNION {IF build = "hardened" THEN NumberWritesClamped("popup", station)
            ELSE NumberWritesRaw("popup", station) : station \in Range(Markers)})
    \cup (UNION {IF build = "hardened" THEN NumberWritesClamped("card", station)
                 ELSE NumberWritesRaw("card", station) : station \in Range(Cards)})
    \cup (IF DetailsShown THEN NumberWritesRaw("details", selectedStation) ELSE {})

(***************************************************************************)
(*                              Properties                                 *)
(***************************************************************************)

\* C1: a record that validateStation rejects is never among the station
\* cards, never among the markers, and never the station of the detail view.
C1_RejectedNeverSurfaces ==
    \A i \in 1..Len(stations) :
        ~validateStation(stations[i]) =>
            /\ stations[i] \notin Range(Cards)
            /\ stations[i] \notin Range(Markers)
            /\ ~(DetailsShown /\ selectedStation = stations[i])

\* the fields of a record have the kinds the validator is specified to accept
WellFormed(r) ==
    /\ r.id.kind = "string"
    /\ r.name.kind = "string"
    /\ r.address.kind = "string"
    /\ r.lat.kind \in {"number", "nan"}
    /\ r.lng.kind \in {"number", "nan"}
    /\ r.available.kind \in {"number", "nan"}
    /\ r.total.kind \in {"number", "nan"}
    /\ r.cost.kind \in {"number", "nan"}
    /\ r.amenities.kind = "array"
    /\ \A i \in 1..Len(r.amenities.a) :
          r.amenities.a[i].kind \in {"string", "number", "nan", "null", "undefined"}
    /\ r.status \in {Str(AVAILABLE), Str(BUSY), Str(OFFLINE)}

C3_SanitizedIsInert ==
    /\ probePc \in {"once", "twice"} =>
          /\ ~HasAngle(probeOut[1])
          /\ ~OpensTag(probeOut[1])
          /\ DecodeEntities(probeOut[1]) = StringOf(probeIn)
    /\ validateStation(XssStation)
    /\ sanitizeText(XssStation.name) = ImgEscaped

C3_Witness ==
    /\ probePc = "once"
    /\ probeIn = Str(ImgPayload)
    /\ probeOut[1] = ImgEscaped

\* C4 as claimed: sanitizing the result of sanitizeText again gives text
\* that shows the same as the result of the first call.
C4_RendersIdentically ==
    probePc = "twice" => DecodeEntities(probeOut[2]) = DecodeEntities(probeOut[1])

Rewritten == {"&", "<", ">", Nbsp}

\* C4 as amended: sanitizing the result of sanitizeText again gives text
\* with no '<' and no '>' that shows as the literal result of the first
\* call; it shows the same as the first result exactly when the input
\* holds none of the characters sanitizeText rewrites.
C4_SecondPassEscapesAgain ==
    probePc = "twice" =>
        /\ ~HasAngle(probeOut[2])
        /\ DecodeEntities(probeOut[2]) = probeOut[1]
        /\ (DecodeEntities(probeOut[2]) = DecodeEntities(probeOut[1]))
              <=> (Range(StringOf(probeIn)) \cap Rewritten = {})

C4_Witness ==
    /\ probePc = "twice"
    /\ probeIn = Str(<<"a", "&", "<">>)
    /\ probeOut[2] # probeOut[1]
    /\ DecodeEntities(probeOut[2]) # DecodeEntities(probeOut[1])

\* position i of t starts one of the named character references
BeginsReference(t, i, names) ==
    \E e \in names :
        /\ i + Len(e) + 1 <= Len(t)
        /\ SubSeq(t, i + 1, i + Len(e) + 1) = e \o <<";">>

Quotes(t) == LET IsQuote(c) == c \in {"\"", "'"} IN SelectSeq(t, IsQuote)

C6_SinksGetSanitizedText ==
    \A w \in SinkWrites : w.text = sanitizeText(w.raw)

\* the pair is what the claim calls invalid coordinates
InvalidCoordinates(station) ==
    \/ station.lat.kind = "nan"
    \/ station.lng.kind = "nan"
    \/ station.lat.kind = "number"
          /\ (station.lat.n < -Fix(90, 0) \/ station.lat.n > Fix(90, 0))
    \/ station.lng.kind = "number"
          /\ (station.lng.n < -Fix(180, 0) \/ station.lng.n > Fix(180, 0))

\* C7: while the detail view shows a station whose coordinates are NaN or
\* out of range, no step opens a URL.
C7_InvalidCoordinatesOpenNothing ==
    [][(DetailsShown /\ InvalidCoordinates(selectedStation)) => opened' = opened]_vars

\* C8: every URL that was opened is the URL the coordinate guard builds for
\* a station of the list whose coordinates passed its check.
C8_OnlyGuardedUrlsOpened ==
    \A i \in 1..Len(opened) :
        \E k \in 1..Len(stations) :
            LET lat == ParseFloat(StringOf(stations[k].lat))
                lng == ParseFloat(StringOf(stations[k].lng))
            IN ~GuardRejects(lat, lng) /\ opened[i] = DirectionsUrl(lat, lng)

ValidCoordinates(station) ==
    /\ station.lat.kind = "number"
    /\ station.lng.kind = "number"
    /\ ~InvalidCoordinates(station)

\* C9: for a station with valid coordinates, the q parameter of every
\* opened directions URL, percent-decoded, is the text of lat, a comma and
\* the text of lng.
C9_QueryDecodesToCoordinates ==
    \A i \in 1..Len(opened) :
        ValidCoordinates(selectedStation) =>
            decodeURIComponent(QueryParam(opened[i]))
                = NumText(selectedStation.lat.n) \o <<",">> \o NumText(selectedStation.lng.n)

C9_Witness ==
    /\ build = "hardened"
    /\ selectedStation.lat = Num(Fix(25, 7617))
    /\ selectedStation.lng = Num(-Fix(80, 1900))
    /\ Len(opened) = 1
    /\ QueryParam(opened[1]) = <<"2", "5", ".", "7", "6", "1", "7", ",",
                                 "-", "8", "0", ".", "1", "9">>

\* C10: in the detail view of a station that is not available, the
\* startCharging handler cannot change the view, the selected station or
\* isCharging.
C10_StartChargingGuarded ==
    (currentView = "details" /\ selectedStation # Null
        /\ selectedStation.status # Str(AVAILABLE))
    => ~ENABLED (handleStartCharging
                 /\ ~(UNCHANGED <<currentView, selectedStation, isCharging>>))

\* C11: in every reachable state, the view being details implies that a
\* station is selected.
C11_DetailsHasSelection ==
    currentView = "details" => selectedStation # Null

\* C12: every step that takes the view from scanner to details (back) ends
\* in the detail view showing a station, the one selected while the scanner
\* was open.
C12_ScannerBackShowsStation ==
    [][(currentView = "scanner" /\ currentView' = "details")
          => (selectedStation' # Null /\ selectedStation' = selectedStation)]_vars

\* a step in which onScan handles an emitted payload
ScanResult == Len(decoded') < Len(decoded)

\* C13: every step in which a payload is handled while the view is scanner
\* ends with the view map and isCharging true, whatever the payload.
C13_ScanLeadsToMapCharging ==
    [][(currentView = "scanner" /\ ScanResult)
          => (currentView' = "map" /\ isCharging' = TRUE)]_vars

C13_Witness ==
    /\ currentView = "map"
    /\ isCharging = TRUE
    /\ selectedStation = Downtown
    /\ decoded = <<>>
    /\ geo = "pending"

\* C14: isCharging starts false; every step that changes it handles a
\* scanned payload and leaves it true; no step makes it false again.
C14_OnlyScanWritesIsCharging ==
    /\ isCharging = FALSE
    /\ [][(isCharging' # isCharging) => (ScanResult /\ isCharging' = TRUE)]_vars
    /\ [][isCharging => isCharging']_vars

C14_Witness ==
    /\ isCharging = TRUE
    /\ currentView = "scanner"
    /\ selectedStation # Null
    /\ Len(opened) = 1

\* C15: a payload handled while the view is not scanner changes neither
\* the view nor isCharging.
C15_LateDecodeIgnored ==
    [][(currentView # "scanner" /\ ScanResult)
          => (currentView' = currentView /\ isCharging' = isCharging)]_vars

C17_SelectYieldsValidatedDetails ==
    [][(currentView = "map" /\ currentView' = "details")
          => /\ selectedStation' \in Range(Markers) \cup Range(Cards)
             /\ validateStation(selectedStation')]_vars

\* C18: wherever the detail view or the profile is on screen, back can be
\* pressed and every outcome of it has the view map.
C18_BackLeadsToMap ==
    /\ DetailsShown =>
          (ENABLED DetailsBack /\ ~ENABLED (DetailsBack /\ currentView' # "map"))
    /\ currentView = "profile" =>
          (ENABLED ProfileBack /\ ~ENABLED (ProfileBack /\ currentView' # "map"))

C18_Witness ==
    /\ currentView = "profile"
    /\ selectedStation = Airport
    /\ isCharging = TRUE
    /\ Len(opened) = 1

NavTargets == {"map", "scanner", "profile"}

\* the bottom navigation can be pressed for every target and sets the view to it
BottomNavResponsive ==
    \A target \in NavTargets : ENABLED (BottomNav /\ currentView' = target)

\* C19: in every reachable state the bottom navigation to map, scanner and
\* profile can be pressed and sets the view to its target.
C19_NoTerminalState == BottomNavResponsive

\* C20 as stated: in details with no selection nothing throws, and back and
\* the bottom navigation are accepted as in any detail view.
C20_AllDetailsEventsAccepted ==
    (currentView = "details" /\ selectedStation = Null)
    => /\ ~RenderThrows
       /\ ENABLED DetailsBack
       /\ BottomNavResponsive

\* C20: in details with no selection nothing is rendered and nothing
\* throws; the bottom navigation is accepted for every target; back, the
\* charge button and the directions button are not on screen.
C20_InertDetailsStaysResponsive ==
    (currentView = "details" /\ selectedStation = Null)
    => /\ ~RenderThrows
       /\ ~DetailsShown
       /\ BottomNavResponsive
       /\ ~ENABLED DetailsBack
       /\ ~ENABLED ChargeButtonClick
       /\ ~ENABLED DirectionsButtonClick

C20_Witness ==
    /\ currentView = "details"
    /\ selectedStation = Null
    /\ isCharging = FALSE
    /\ decoded = <<>>

ValidCenter(center) ==
    /\ center[1].kind = "number"
    /\ center[2].kind = "number"
    /\ center[1].n >= -Fix(90, 0) /\ center[1].n <= Fix(90, 0)
    /\ center[2].n >= -Fix(180, 0) /\ center[2].n <= Fix(180, 0)

\* C22 as stated: after a geolocation failure userLocation is the fallback
\* location, nothing has thrown, the center is a valid pair, and the
\* fallback location is the default center of the map.
C22_FallbackIsDefaultCenter ==
    geo = "failed"
    => /\ userLocation = FallbackLocation
       /\ ~RenderThrows
       /\ ValidCenter(mapCenter)
       /\ userLocation.a = DefaultCenter

\* C22: after a geolocation failure userLocation is the fallback location
\* (25.7617, -80.1918), nothing has thrown, and the center is still the
\* default center (25.78, -80.1918), a valid pair with the longitude of the
\* fallback location and another latitude; the failure step leaves the
\* center as it was.
C22_FallbackLocationOnFailure ==
    /\ [](geo = "failed"
            => /\ userLocation = FallbackLocation
               /\ ~RenderThrows
               /\ ValidCenter(mapCenter)
               /\ mapCenter = DefaultCenter
               /\ userLocation.a[2] = mapCenter[2]
               /\ userLocation.a[1] # mapCenter[1])
    /\ [][(geo = "pending" /\ geo' = "failed") => mapCenter' = mapCenter]_vars

C22_Witness ==
    /\ geo = "failed"
    /\ userLocation = Loc(Num(Fix(25, 7617)), Num(-Fix(80, 1918)))
    /\ selectedStation # Null

\* C23: no step after startup issues a geolocation request, and once a
\* callback of the request has been applied no step applies another.
C23_OneRequestOneCallback ==
    [][/\ geo' = "pending" => geo = "pending"
       /\ (geo \in {"resolved", "failed"} /\ geo' \in {"resolved", "failed"})
             => (geo' = geo /\ userLocation' = userLocation)]_vars

\* C24: in every reachable state the map center is a valid coordinate
\* pair, and every step that changes it applies a geolocation fix or
\* selects a station from the map.
C24_CenterValidAndOwned ==
    /\ [](ValidCenter(mapCenter))
    /\ [][(mapCenter' # mapCenter)
             => \/ geo = "pending" /\ geo' = "resolved"
                \/ currentView = "map" /\ currentView' = "details"]_vars

\* C25: every click on a station card is on a station that passes
\* validateStation, selects that station, and leaves the map center at the
\* coordinates of that station.
C25_CardActivationCentersAndSelects ==
    [][StationCardClick
          => /\ validateStation(selectedStation')
             /\ currentView' = "details"
             /\ mapCenter' = <<selectedStation'.lat, selectedStation'.lng>>]_vars

\* C26: while the map is shown, the station cards are exactly the stations
\* of the list that pass validateStation and whose name or address contains
\* the typed query, letter case ignored.
C26_FilterIsSubstringMatch ==
    (currentView = "map" /\ ~RenderThrows)
    => LET q == toLowerCase(searchQuery)
           Wanted(station) ==
               /\ validateStation(station)
               /\ \/ includes(toLowerCase(station.name.s), q)
                  \/ includes(toLowerCase(station.address.s), q)
       IN Cards = SelectSeq(stations, Wanted)

\* C27: the colour of a marker is green for the status available, orange
\* for busy, and red for offline and for every other value of status, in
\* both versions of createStationIcon, whatever the other fields hold.
C27_MarkerStyleFromStatus ==
    probePc = "styled"
    => LET expected == CASE probeIn.status = Str(AVAILABLE) -> "#10B981"
                         [] probeIn.status = Str(BUSY) -> "#F59E0B"
                         [] OTHER -> "#EF4444"
       IN probeOut = <<expected, expected>>

C27_Witness ==
    /\ probePc = "styled"
    /\ probeIn.status = Str(<<"u", "n", "k", "n", "o", "w", "n">>)
    /\ probeIn.name = Str(ImgPayload)
    /\ probeOut = <<"#EF4444", "#EF4444">>

\* the text is a numeral without sign: digits, with at most a decimal part
Unsigned(text) ==
    /\ text # <<>>
    /\ \A i \in 1..Len(text) : text[i] \in DigitSet \cup {"."}

\* the text ends in a point and two digits
TwoDecimals(text) ==
    /\ Len(text) >= 4
    /\ text[Len(text) - 2] = "."
    /\ \A i \in 1..Len(text) : i # Len(text) - 2 => text[i] \in DigitSet

\* C28: every number shown for a station, on the popup, the card and the
\* detail view, is shown without sign and is never NaN; a negative or NaN
\* value is shown as 0; the cost is shown with two decimals.
C28_NumbersClampedOnEverySurface ==
    \A w \in NumberWrites :
        /\ Unsigned(w.text)
        /\ (w.raw.kind = "nan" \/ (w.raw.kind = "number" /\ w.raw.n < 0))
              => w.text = IF w.field = "cost" THEN <<"0", ".", "0", "0">> ELSE <<"0">>
        /\ w.field = "cost" => TwoDecimals(w.text)

\* a step that selects a station the map offers
SelectStep ==
    /\ currentView = "map"
    /\ currentView' = "details"
    /\ selectedStation' \in Range(Markers) \cup Range(Cards)

C30_FrameConditions ==
    /\ [][(DetailsBack \/ ScannerBack \/ ProfileBack \/ BottomNav \/ ChargeButtonClick)
             => UNCHANGED <<selectedStation, isCharging>>]_vars
    /\ [][ScannerScan => UNCHANGED selectedStation]_vars
    /\ [][(StationCardClick \/ PopupViewDetails) => UNCHANGED isCharging]_vars
    /\ [][(SearchInput \/ GeoSuccess \/ GeoFailure)
             => UNCHANGED <<currentView, selectedStation, isCharging>>]_vars
    /\ [][stations' = stations]_vars

C30_Witness ==
    /\ currentView = "profile"
    /\ selectedStation = Downtown
    /\ isCharging = TRUE
    /\ stations = <<Downtown, Airport>>
    /\ Len(opened) = 1

\* C31: while the map is shown, whatever the query, the markers are exactly
\* the stations of the list that pass validateStation, the cards are among
\* the markers, and typing a query leaves the markers as they were.
C31_MarkersIgnoreQuery ==
    /\ []((currentView = "map" /\ ~RenderThrows)
            => /\ Markers = SelectSeq(stations, validateStation)
               /\ Range(Cards) \subseteq Range(Markers))
    /\ [][SearchInput => Markers' = Markers]_vars

\* C32: the step in which the failure callback is applied sets userLocation
\* to the fallback location and changes nothing else: the center, the
\* query, the view, the selection and the session are as before; after a
\* failure the center is the default center or the position of a station
\* of the list.
C32_FailureChangesUserLocationOnly ==
    /\ [][(geo = "pending" /\ geo' = "failed")
             => /\ userLocation' = FallbackLocation
                /\ UNCHANGED <<mapCenter, searchQuery, currentView, selectedStation,
                               isCharging, stations, opened, capture, decoded>>]_vars
    /\ [](geo = "failed"
            => \/ mapCenter = DefaultCenter
               \/ \E i \in 1..Len(stations) :
                     mapCenter = <<stations[i].lat, stations[i].lng>>)

\* a failure after a session was started and a query typed: the center
\* and userLocation differ
C32_Witness ==
    /\ geo = "failed"
    /\ isCharging = TRUE
    /\ searchQuery # <<>>
    /\ userLocation = FallbackLocation
    /\ mapCenter = DefaultCenter
    /\ mapCenter # userLocation.a

====
